---- MODULE Spec2Model ----
(***************************************************************************)
(* Model of src/app.py: the CWA weather dashboard.                         *)
(*                                                                         *)
(*   download_weather_json -> parse_weather_json -> init_db ->             *)
(*   save_weather_to_db -> load_weather_from_db                            *)
(*                                                                         *)
(* Two specifications share the module.  SpecNorm applies the pure         *)
(* normalisation functions (_get_root_locations, _get_first_time_value,    *)
(* parse_weather_json) to inputs drawn from bounded sets.  Spec is the     *)
(* dashboard itself: Streamlit sessions that rerun the script, refresh     *)
(* the SQLite store and read it back, interleaved statement by statement.  *)
(***************************************************************************)
EXTENDS Integers, Sequences, FiniteSets, TLC

VARIABLES
    \* ---- the SQLite file data.db (DB_PATH) -------------------------------
    schema,     \* sequence of table names in sqlite_master
    table,      \* committed rows of table weather (what any new connection reads)
    seq,        \* committed sqlite_sequence value of weather (AUTOINCREMENT)
    lock,       \* holder of the database write lock: a session, "leaked" or "free"
    leaked,     \* uncommitted rows of a connection abandoned by a failed save
    \* ---- one Streamlit session per element of Sessions -------------------
    pc,         \* position of the session's script run
    resp,       \* the HTTP response (or transport failure) of the current refresh
    rows,       \* the list returned by parse_weather_json
    idx,        \* index of the next row save_weather_to_db inserts
    txn,        \* the open connection's uncommitted view: [rows, seq]
    prior,      \* committed rows when the session's save acquired the write lock
    report,     \* what the session's left column last showed (success / error)
    view,       \* the rows the session's right column last displayed
    \* ---- SpecNorm: one call of a pure function ---------------------------
    call,       \* which function was applied ("none" before the call)
    arg,        \* its argument
    ret         \* its result

storeVars == <<schema, table, seq, lock, leaked>>
sessVars  == <<pc, resp, rows, idx, txn, prior, report, view>>
normVars  == <<call, arg, ret>>
vars      == <<schema, table, seq, lock, leaked,
               pc, resp, rows, idx, txn, prior, report, view,
               call, arg, ret>>

(***************************************************************************)
(* Python / JSON values.  Every value is a record tagged by its type, so   *)
(* that isinstance() and `is None` are tests on the tag.  A dict is a      *)
(* record whose other fields are its keys; a str is a sequence of          *)
(* one-character strings; a float is the exact decimal n / 10^k with the   *)
(* trailing zeros of the fraction removed.                                 *)
(***************************************************************************)
None      == [t |-> "null"]
Str(s)    == [t |-> "str", s |-> s]
Float(n, k) == [t |-> "float", n |-> n, k |-> k]
List(e)   == [t |-> "list", e |-> e]
EmptyDict == [t |-> "dict"]

IsDict(x) == x.t = "dict"
IsList(x) == x.t = "list"
IsStr(x)  == x.t = "str"

\* d.get(k, default)
Get(d, k, default) == IF k \in DOMAIN d THEN d[k] ELSE default

\* the outcome of a call: a returned value or a raised exception
Return(v) == [exc |-> "none", val |-> v]
Raise(e)  == [exc |-> e, val |-> None]

MinT == Str(<<"M", "i", "n", "T">>)
MaxT == Str(<<"M", "a", "x", "T">>)
Wx   == Str(<<"W", "x">>)
WeatherDescription ==
    Str(<<"W", "e", "a", "t", "h", "e", "r", "D", "e", "s", "c", "r", "i", "p", "t", "i", "o", "n">>)
\* the default location name of line 94, written in ASCII
UNKNOWN_LOCATION   == Str(<<"?">>)

(***************************************************************************)
(* float(val), line 113 and 118.  A str is stripped of surrounding white   *)
(* space, then read as [sign] digits [. digits] with at least one digit;   *)
(* anything else raises ValueError.  (Exponents, underscores, inf and nan  *)
(* use characters outside Alphabet.)  A value that is neither a str nor a  *)
(* number raises TypeError.                                                *)
(***************************************************************************)
DigitVal == ("0" :> 0) @@ ("1" :> 1) @@ ("2" :> 2) @@ ("3" :> 3) @@ ("4" :> 4)
            @@ ("5" :> 5) @@ ("6" :> 6) @@ ("7" :> 7) @@ ("8" :> 8) @@ ("9" :> 9)

IsDigit(c) == c \in DOMAIN DigitVal
AllDigits(s) == \A i \in 1..Len(s) : IsDigit(s[i])

RECURSIVE DigitsVal(_)
DigitsVal(s) ==
    IF s = <<>> THEN 0
    ELSE 10 * DigitsVal(SubSeq(s, 1, Len(s) - 1)) + DigitVal[s[Len(s)]]

RECURSIVE LStrip(_)
LStrip(s) == IF s # <<>> /\ s[1] = " " THEN LStrip(Tail(s)) ELSE s

RECURSIVE RStrip(_)
RStrip(s) == IF s # <<>> /\ s[Len(s)] = " "
             THEN RStrip(SubSeq(s, 1, Len(s) - 1)) ELSE s

RECURSIVE Normalize(_, _)
Normalize(n, k) == IF k > 0 /\ n % 10 = 0 THEN Normalize(n \div 10, k - 1)
                   ELSE Float(n, k)

\* digits [. digits] with at least one digit, as a number; else None
DecimalParts(ip, fp) ==
    IF AllDigits(ip) /\ AllDigits(fp) /\ Len(ip) + Len(fp) >= 1
    THEN Normalize(DigitsVal(ip \o fp), Len(fp))
    ELSE None

Dots(s) == {i \in 1..Len(s) : s[i] = "."}
DotAt(s) == IF Dots(s) = {} THEN Len(s) + 1 ELSE CHOOSE i \in Dots(s) : TRUE

\* the unsigned decimal `s`, or None when it is not one
Decimal(s) ==
    IF Cardinality(Dots(s)) > 1 THEN None
    ELSE DecimalParts(SubSeq(s, 1, DotAt(s) - 1), SubSeq(s, DotAt(s) + 1, Len(s)))

HasSign(b) == b # <<>> /\ b[1] \in {"-", "+"}
WithSign(b, f) ==
    IF f # None /\ b # <<>> /\ b[1] = "-" THEN Float(0 - f.n, f.k) ELSE f
Signed(b) == WithSign(b, Decimal(IF HasSign(b) THEN Tail(b) ELSE b))

\* the number a numeric text denotes, or None when the text is not numeric
Numeric(s) == Signed(RStrip(LStrip(s)))

FloatOfText(n) == IF n = None THEN Raise("ValueError") ELSE Return(n)

float(val) ==
    IF val.t = "float" THEN Return(val)
    ELSE IF val.t = "str" THEN FloatOfText(Numeric(val.s))
    ELSE Raise("TypeError")

(***************************************************************************)
(* The normaliser, lines 48-126.                                           *)
(***************************************************************************)
\* mutant: a payload of neither shape is searched for a top-level list
_get_root_locations_lenient(data) ==
    IF "cwaopendata" \in DOMAIN data
    THEN Get(Get(data["cwaopendata"], "dataset", EmptyDict), "location", List(<<>>))
    ELSE IF "records" \in DOMAIN data
    THEN Get(data["records"], "location", List(<<>>))
    ELSE Get(data, "location", List(<<>>))

_get_root_locations(data) ==
    IF "cwaopendata" \in DOMAIN data
    THEN LET dataset == Get(data["cwaopendata"], "dataset", EmptyDict)
         IN  Get(dataset, "location", List(<<>>))
    ELSE IF "records" \in DOMAIN data
    THEN Get(data["records"], "location", List(<<>>))
    ELSE List(<<>>)

\* `not time_list`: None or the empty list
Falsy(x) == x = None \/ (IsList(x) /\ x.e = <<>>)

_get_first_time_value(time_list) ==
    IF Falsy(time_list) THEN None
    ELSE LET t0 == time_list.e[1]
             ev == Get(t0, "elementValue", None)
         IN  IF IsDict(Get(t0, "parameter", None))
             THEN Get(t0["parameter"], "parameterName", None)
             ELSE IF IsList(ev) /\ ev.e # <<>>
             THEN Get(ev.e[1], "value", None)
             ELSE IF IsDict(ev)
             THEN Get(ev, "value", None)
             ELSE None

\* lines 112-115 and 117-120: try float(val), except ValueError keep val
ExceptValueError(val, r) == IF r.exc = "ValueError" THEN Return(val) ELSE r
Coerce(val) == ExceptValueError(val, float(val))

\* row[field] = the value c evaluates to, unless evaluating it raised
SetField(row, field, c) ==
    IF c.exc # "none" THEN c ELSE Return([row EXCEPT ![field] = c.val])

\* lines 107-122: the dispatch on the element's name
Dispatch(row, elem_name, val) ==
    IF val = None THEN Return(row)
    ELSE IF elem_name = MinT THEN SetField(row, "min_temp", Coerce(val))
    ELSE IF elem_name = MaxT THEN SetField(row, "max_temp", Coerce(val))
    ELSE IF elem_name \in {Wx, WeatherDescription}
    THEN SetField(row, "description", Return(val))
    ELSE Return(row)

\* lines 105-122: one iteration of the loop over weather_elements
ParseElement(row, elem) ==
    Dispatch(row, Get(elem, "elementName", None),
             _get_first_time_value(Get(elem, "time", List(<<>>))))

\* lines 104-122: the loop over weather_elements from index i on; an
\* exception ends it
RECURSIVE ParseElements(_, _, _)
NextElement(r, elems, i) ==
    IF r.exc # "none" THEN r ELSE ParseElements(r.val, elems, i + 1)
ParseElements(row, elems, i) ==
    IF i > Len(elems) THEN Return(row)
    ELSE NextElement(ParseElement(row, elems[i]), elems, i)

\* lines 94-124: one entity
ParseLocation(loc) ==
    ParseElements([t |-> "dict",
                   location |-> Get(loc, "locationName", UNKNOWN_LOCATION),
                   min_temp |-> None, max_temp |-> None, description |-> None],
                  Get(loc, "weatherElement", List(<<>>)).e, 1)

\* lines 93-124: the loop over locations from index i on
RECURSIVE ParseLocations(_, _, _)
NextLocation(result_rows, r, locs, i) ==
    IF r.exc # "none" THEN r
    ELSE ParseLocations(Append(result_rows, r.val), locs, i + 1)
ParseLocations(result_rows, locs, i) ==
    IF i > Len(locs) THEN Return(result_rows)
    ELSE NextLocation(result_rows, ParseLocation(locs[i]), locs, i)

parse_weather_json(data) ==
    ParseLocations(<<>>, _get_root_locations(data).e, 1)

(***************************************************************************)
(* Inputs of the normaliser: payloads and time lists built from every      *)
(* string over Alphabet up to MaxStrLen and from nested (non-text) values. *)
(***************************************************************************)
MaxStrLen == 3
Alphabet  == {"0", "2", ".", "-", " ", "a"}

RECURSIVE Strings(_)
Strings(n) ==
    IF n = 0 THEN {<<>>}
    ELSE LET shorter == Strings(n - 1)
         IN  shorter \cup {Append(x, c) : x \in {y \in shorter : Len(y) = n - 1},
                                           c \in Alphabet}

RawStrings   == {Str(x) : x \in Strings(MaxStrLen)}
RawComposite == {List(<<Str(<<"2">>)>>), EmptyDict}
RawValues    == RawStrings \cup RawComposite
SampleValues == {Str(<<"2", ".", "0">>), Str(<<"a">>), List(<<Str(<<"2">>)>>)}

\* the known layouts of a time entry, and entries that match none of them
ParamEntry(v)  == [t |-> "dict", parameter |-> [t |-> "dict", parameterName |-> v]]
EvListEntry(v) == [t |-> "dict", elementValue |-> List(<<[t |-> "dict", value |-> v]>>)]
EvDictEntry(v) == [t |-> "dict", elementValue |-> [t |-> "dict", value |-> v]]
BothEntry(p, v) == [t |-> "dict", parameter |-> p,
                    elementValue |-> [t |-> "dict", value |-> v]]
OddEntries ==
    { EmptyDict,
      [t |-> "dict", parameter |-> EmptyDict],
      [t |-> "dict", parameter |-> Str(<<"a">>)],
      [t |-> "dict", elementValue |-> List(<<>>)],
      [t |-> "dict", elementValue |-> EmptyDict],
      [t |-> "dict", elementValue |-> Str(<<"2">>)] }

TimeEntries ==
    OddEntries
    \cup {ParamEntry(v)  : v \in SampleValues \cup {None}}
    \cup {EvListEntry(v) : v \in SampleValues \cup {None}}
    \cup {EvDictEntry(v) : v \in SampleValues \cup {None}}
    \cup {BothEntry(p, v) : p \in {EmptyDict, Str(<<"a">>),
                                    [t |-> "dict", parameterName |-> Str(<<"0">>)]},
                            v \in SampleValues}

TimeLists ==
    {None, List(<<>>)}
    \cup {List(<<e>>) : e \in TimeEntries}
    \cup {List(<<e, ParamEntry(Str(<<"0">>))>>) : e \in OddEntries}

Element(name, time) == [t |-> "dict", elementName |-> name, time |-> time]
ElementNoTime(name) == [t |-> "dict", elementName |-> name]

\* how one named element occurs in an entity
Slots == {[slot |-> "absent", v |-> None], [slot |-> "notime", v |-> None],
          [slot |-> "emptytime", v |-> None]}
         \cup {[slot |-> "value", v |-> v] : v \in SampleValues}

SlotElements(name, slot) ==
    IF slot.slot = "absent" THEN <<>>
    ELSE IF slot.slot = "notime" THEN <<ElementNoTime(name)>>
    ELSE IF slot.slot = "emptytime" THEN <<Element(name, List(<<>>))>>
    ELSE <<Element(name, List(<<ParamEntry(slot.v)>>))>>

Entity(name, elems) ==
    [t |-> "dict", locationName |-> name, weatherElement |-> List(elems)]

GridEntities ==
    { Entity(Str(<<"a">>),
             SlotElements(MinT, a) \o SlotElements(MaxT, b) \o SlotElements(Wx, c))
        : a \in Slots, b \in Slots, c \in Slots }

CoercionEntities ==
    { Entity(Str(<<"a">>), <<Element(name, List(<<entry>>))>>)
        : name \in {MinT, MaxT},
          entry \in {ParamEntry(v) : v \in RawValues}
                    \cup {EvListEntry(v) : v \in RawComposite \cup SampleValues}
                    \cup {EvDictEntry(v) : v \in RawComposite \cup SampleValues} }

OtherEntities ==
    { EmptyDict,
      [t |-> "dict", weatherElement |-> List(<<Element(MinT, List(<<ParamEntry(Str(<<"2">>))>>))>>)],
      Entity(Str(<<"0">>), <<Element(WeatherDescription, List(<<EvDictEntry(Str(<<"a">>))>>)),
                              Element(Str(<<"a">>), List(<<ParamEntry(Str(<<"2">>))>>))>>),
      Entity(Str(<<"0">>), <<[t |-> "dict", time |-> List(<<ParamEntry(Str(<<"2">>))>>)],
                              Element(MinT, List(<<ParamEntry(Str(<<"2">>))>>)),
                              Element(MinT, List(<<ParamEntry(Str(<<"a">>))>>)),
                              Element(MinT, List(<<>>))>>) }

Entities == GridEntities \cup CoercionEntities \cup OtherEntities

EntityLists ==
    {<<>>} \cup {<<e>> : e \in Entities}
    \cup {<<e, f>> : e \in OtherEntities, f \in OtherEntities}

\* the two known root shapes, and payloads of neither shape
ShapeA(locs) == [t |-> "dict",
                 cwaopendata |-> [t |-> "dict",
                                  dataset |-> [t |-> "dict", location |-> List(locs)]]]
ShapeB(locs) == [t |-> "dict", records |-> [t |-> "dict", location |-> List(locs)]]

SmallLists == {locs \in EntityLists : \A i \in 1..Len(locs) : locs[i] \in OtherEntities}

UnknownShapes ==
    {EmptyDict}
    \cup {[t |-> "dict", location |-> List(locs)] : locs \in SmallLists}
    \cup {[t |-> "dict", result |-> [t |-> "dict", location |-> List(locs)]]
            : locs \in SmallLists}
    \cup {[t |-> "dict", dataset |-> [t |-> "dict", location |-> List(locs)]]
            : locs \in SmallLists}

DegenerateShapes ==
    { [t |-> "dict", cwaopendata |-> EmptyDict],
      [t |-> "dict", cwaopendata |-> [t |-> "dict", dataset |-> EmptyDict]],
      [t |-> "dict", records |-> EmptyDict],
      [t |-> "dict", cwaopendata |-> EmptyDict,
                     records |-> [t |-> "dict", location |-> List(<<EmptyDict>>)]] }

NormPayloads ==
    {ShapeA(locs) : locs \in EntityLists}
    \cup {ShapeB(locs) : locs \in EntityLists}
    \cup UnknownShapes \cup DegenerateShapes

NormInputs ==
    {[kind |-> "payload", v |-> d] : d \in NormPayloads}
    \cup {[kind |-> "time", v |-> tl] : tl \in TimeLists}

(***************************************************************************)
(* SpecNorm: one call of a normaliser function on one input.               *)
(***************************************************************************)
NoArg == [kind |-> "none", v |-> None]

CallLocate ==
    /\ call = "none" /\ arg.kind = "payload"
    /\ call' = "locate"
    /\ ret' = Return(_get_root_locations(arg.v))
    /\ UNCHANGED <<arg, storeVars, sessVars>>

CallFirst ==
    /\ call = "none" /\ arg.kind = "time"
    /\ call' = "first"
    /\ ret' = Return(_get_first_time_value(arg.v))
    /\ UNCHANGED <<arg, storeVars, sessVars>>

CallParse ==
    /\ call = "none" /\ arg.kind = "payload"
    /\ call' = "parse"
    /\ ret' = parse_weather_json(arg.v)
    /\ UNCHANGED <<arg, storeVars, sessVars>>

(***************************************************************************)
(* The SQLite store, lines 132-190.                                        *)
(*                                                                         *)
(* sqlite3.connect(DB_PATH) is called with the default isolation_level,    *)
(* under which the module opens a transaction before the first DELETE or   *)
(* INSERT of a connection and keeps it open until conn.commit().  The      *)
(* statements of save_weather_to_db therefore act on the connection's own  *)
(* uncommitted view (txn); SQLite's write lock admits one such connection  *)
(* at a time, and every other connection reads the committed rows.         *)
(***************************************************************************)
Sessions == {"s1", "s2"}
MaxId    == 3          \* cap of the AUTOINCREMENT counter

NoTxn == [open |-> FALSE, rows |-> {}, seq |-> 0]

\* mutant: DROP TABLE IF EXISTS, then CREATE TABLE
init_db_recreate(d) ==
    IF \E i \in 1..Len(d[1]) : d[1][i] = "weather"
    THEN <<d[1], {}, 0>>
    ELSE <<Append(d[1], "weather"), d[2], d[3]>>

\* lines 136-148: CREATE TABLE IF NOT EXISTS weather, on the database d
init_db(d) ==
    IF \E i \in 1..Len(d[1]) : d[1][i] = "weather"
    THEN d
    ELSE <<Append(d[1], "weather"), d[2], d[3]>>

\* mutant: the DELETE is left out
ExecDelete_skipped(t) == t

\* line 160: DELETE FROM weather, on the view t of an open transaction
ExecDelete(t) == [t EXCEPT !.rows = {}]

\* lines 169-172: a value sqlite3 can bind is None, a number or a str
Bindable(v) == v.t \in {"null", "float", "str"}

\* lines 140-143: a REAL column stores a numeric text as the number it
\* denotes; a TEXT column stores a text as it is
NumberOr(v, n) == IF n = None THEN v ELSE n
Affinity(type, v) ==
    IF type = "REAL" /\ IsStr(v) THEN NumberOr(v, Numeric(v.s)) ELSE v

\* lines 163-174: INSERT INTO weather of `row`, on the view t; the id is
\* the next value of the AUTOINCREMENT sequence
ExecInsert(t, row) ==
    LET location    == Get(row, "location", None)
        min_temp    == Get(row, "min_temp", None)
        max_temp    == Get(row, "max_temp", None)
        description == Get(row, "description", None)
    IN  IF \A v \in {location, min_temp, max_temp, description} : Bindable(v)
        THEN Return([t EXCEPT
                 !.seq  = t.seq + 1,
                 !.rows = t.rows \cup
                     {[id |-> t.seq + 1,
                       location    |-> Affinity("TEXT", location),
                       min_temp    |-> Affinity("REAL", min_temp),
                       max_temp    |-> Affinity("REAL", max_temp),
                       description |-> Affinity("TEXT", description)]}])
        ELSE Raise("ProgrammingError")

\* lines 185-188: SELECT ... FROM weather scans the table in rowid order
RECURSIVE Scan(_)
Scan(tbl) ==
    IF tbl = {} THEN <<>>
    ELSE LET first == CHOOSE r \in tbl : \A q \in tbl : r.id <= q.id
         IN  <<first>> \o Scan(tbl \ {first})

load_weather_from_db(tbl) == Scan(tbl)

(***************************************************************************)
(* download_weather_json, lines 26-34.  A response is a transport failure  *)
(* (requests.get raises) or a status and a decoded body.                   *)
(***************************************************************************)
\* mutant: resp.raise_for_status() is left out
download_weather_json_unchecked(r) ==
    IF r.err # "none" THEN Raise(r.err) ELSE Return(r.body)

download_weather_json(r) ==
    IF r.err # "none" THEN Raise(r.err)
    ELSE IF r.status >= 400 THEN Raise("HTTPError")
    ELSE Return(r.body)

Loc(name, elems) == Entity(Str(<<name>>), elems)
Param(name, v)   == Element(name, List(<<ParamEntry(v)>>))

\* bodies the API may send
BodyTwo ==
    ShapeA(<<Loc("a", <<Param(MinT, Str(<<"2", ".", "0">>)), Param(MaxT, Str(<<"-">>)),
                       Param(Wx, Str(<<"a">>))>>),
             Loc("a", <<Param(MaxT, Str(<<" ", "2">>))>>)>>)
BodyOne ==
    ShapeB(<<Loc("0", <<Element(MinT, List(<<EvListEntry(Str(<<".", "2">>))>>)),
                       Element(Wx, List(<<EvDictEntry(Str(<<"2">>))>>))>>)>>)
BodyUnknown ==
    [t |-> "dict", location |-> List(<<Loc("a", <<Param(MinT, Str(<<"2">>))>>)>>)]
BodyNested ==
    ShapeB(<<Loc("2", <<Param(Wx, Str(<<"0">>))>>),
             Loc("2", <<Param(Wx, List(<<Str(<<"2">>)>>))>>)>>)
BodyNestedTemp ==
    ShapeB(<<Loc("2", <<Param(MinT, List(<<Str(<<"2">>)>>))>>)>>)

Bodies == {BodyTwo, BodyOne, BodyUnknown, BodyNested, BodyNestedTemp}

NoResponse == [err |-> "none", status |-> 0, body |-> EmptyDict]

Responses ==
    {[err |-> e, status |-> 0, body |-> EmptyDict] : e \in {"ConnectionError", "Timeout"}}
    \cup {[err |-> "none", status |-> 200, body |-> b] : b \in Bodies}
    \cup {[err |-> "none", status |-> 503, body |-> BodyUnknown]}

(***************************************************************************)
(* The dashboard: each session reruns the script (lines 253-256, 196-250). *)
(***************************************************************************)
NoReport == [kind |-> "none", n |-> 0, exc |-> "none"]
Success(n) == [kind |-> "success", n |-> n, exc |-> "none"]
Error(e)   == [kind |-> "error", n |-> 0, exc |-> e]

\* the database file: <<schema, committed rows, committed sequence>>
Database == <<schema, table, seq>>
Becomes(d) == schema' = d[1] /\ table' = d[2] /\ seq' = d[3]

\* line 222: the except clause of main; the failed call's connection, if
\* any, is neither committed nor closed
Caught(s, e) ==
    /\ report' = [report EXCEPT ![s] = Error(e)]
    /\ pc' = [pc EXCEPT ![s] = "display"]
    /\ resp' = [resp EXCEPT ![s] = NoResponse]
    /\ rows' = [rows EXCEPT ![s] = <<>>]
    /\ idx' = [idx EXCEPT ![s] = 0]
    /\ txn' = [txn EXCEPT ![s] = NoTxn]
    /\ prior' = [prior EXCEPT ![s] = {}]
    /\ IF lock = s
       THEN lock' = "leaked" /\ leaked' = txn[s]
       ELSE UNCHANGED <<lock, leaked>>

\* lines 253-256 and 196-208: the script starts: init_db(), then main()
\* up to the button
Run(s) ==
    /\ pc[s] = "idle"
    /\ Becomes(init_db(Database))
    /\ \E button \in BOOLEAN :
          pc' = [pc EXCEPT ![s] = IF button THEN "fetch" ELSE "display"]
    /\ UNCHANGED <<lock, leaked, resp, rows, idx, txn, prior, report, view, normVars>>

\* line 211
Fetched(s, r, data) ==
    IF data.exc # "none"
    THEN /\ Caught(s, data.exc)
         /\ UNCHANGED <<schema, table, seq, view, normVars>>
    ELSE /\ resp' = [resp EXCEPT ![s] = r]
         /\ pc' = [pc EXCEPT ![s] = "parse"]
         /\ UNCHANGED <<storeVars, rows, idx, txn, prior, report, view, normVars>>

Fetch(s) ==
    /\ pc[s] = "fetch"
    /\ \E r \in Responses : Fetched(s, r, download_weather_json(r))

\* line 214
Parsed(s, r) ==
    IF r.exc # "none"
    THEN /\ Caught(s, r.exc)
         /\ UNCHANGED <<schema, table, seq, view, normVars>>
    ELSE /\ rows' = [rows EXCEPT ![s] = r.val]
         /\ pc' = [pc EXCEPT ![s] = "init"]
         /\ UNCHANGED <<storeVars, resp, idx, txn, prior, report, view, normVars>>

Parse(s) ==
    /\ pc[s] = "parse"
    /\ Parsed(s, parse_weather_json(resp[s].body))

\* line 217
InitDb(s) ==
    /\ pc[s] = "init"
    /\ Becomes(init_db(Database))
    /\ pc' = [pc EXCEPT ![s] = "delete"]
    /\ UNCHANGED <<lock, leaked, resp, rows, idx, txn, prior, report, view, normVars>>

\* mutant: the connection is in autocommit mode (isolation_level=None):
\* the DELETE is committed at once
SaveDelete_autocommit(s) ==
    /\ pc[s] = "delete"
    /\ lock = "free"
    /\ lock' = s
    /\ table' = {}
    /\ txn' = [txn EXCEPT ![s] = ExecDelete([open |-> TRUE, rows |-> table, seq |-> seq])]
    /\ prior' = [prior EXCEPT ![s] = table]
    /\ idx' = [idx EXCEPT ![s] = 1]
    /\ pc' = [pc EXCEPT ![s] = "insert"]
    /\ UNCHANGED <<schema, seq, leaked, resp, rows, report, view, normVars>>

\* mutant: the DELETE does not wait for the write lock
SaveDelete_unlocked(s) ==
    /\ pc[s] = "delete"
    /\ lock' = s
    /\ txn' = [txn EXCEPT ![s] = ExecDelete([open |-> TRUE, rows |-> table, seq |-> seq])]
    /\ prior' = [prior EXCEPT ![s] = table]
    /\ idx' = [idx EXCEPT ![s] = 1]
    /\ pc' = [pc EXCEPT ![s] = "insert"]
    /\ UNCHANGED <<schema, table, seq, leaked, resp, rows, report, view, normVars>>

\* lines 156-160: connect and DELETE; the statement opens the transaction
\* and takes the write lock
SaveDelete(s) ==
    /\ pc[s] = "delete"
    /\ lock = "free"
    /\ lock' = s
    /\ txn' = [txn EXCEPT ![s] = ExecDelete([open |-> TRUE, rows |-> table, seq |-> seq])]
    /\ prior' = [prior EXCEPT ![s] = table]
    /\ idx' = [idx EXCEPT ![s] = 1]
    /\ pc' = [pc EXCEPT ![s] = "insert"]
    /\ UNCHANGED <<schema, table, seq, leaked, resp, rows, report, view, normVars>>

\* line 160 when another connection holds the write lock past the busy
\* timeout: OperationalError (database is locked)
SaveBusy(s) ==
    /\ pc[s] = "delete"
    /\ lock # "free"
    /\ Caught(s, "OperationalError")
    /\ UNCHANGED <<schema, table, seq, view, normVars>>

\* lines 162-174: one iteration of the loop over rows
Inserted(s, r) ==
    IF r.exc # "none"
    THEN /\ Caught(s, r.exc)
         /\ UNCHANGED <<schema, table, seq, view, normVars>>
    ELSE /\ txn' = [txn EXCEPT ![s] = r.val]
         /\ idx' = [idx EXCEPT ![s] = idx[s] + 1]
         /\ UNCHANGED <<storeVars, pc, resp, rows, prior, report, view, normVars>>

SaveInsert(s) ==
    /\ pc[s] = "insert"
    /\ idx[s] <= Len(rows[s])
    /\ txn[s].seq < MaxId
    /\ Inserted(s, ExecInsert(txn[s], rows[s][idx[s]]))

\* lines 176-177 and 220: commit publishes the view and releases the lock
SaveCommit(s) ==
    /\ pc[s] = "insert"
    /\ idx[s] > Len(rows[s])
    /\ table' = txn[s].rows
    /\ seq' = txn[s].seq
    /\ lock' = "free"
    /\ report' = [report EXCEPT ![s] = Success(Len(rows[s]))]
    /\ pc' = [pc EXCEPT ![s] = "display"]
    /\ resp' = [resp EXCEPT ![s] = NoResponse]
    /\ rows' = [rows EXCEPT ![s] = <<>>]
    /\ idx' = [idx EXCEPT ![s] = 0]
    /\ txn' = [txn EXCEPT ![s] = NoTxn]
    /\ prior' = [prior EXCEPT ![s] = {}]
    /\ UNCHANGED <<schema, leaked, view, normVars>>

\* an I/O failure of the store in an INSERT or in the commit (lines 163-176)
SaveFail(s) ==
    /\ pc[s] = "insert"
    /\ Caught(s, "OperationalError")
    /\ UNCHANGED <<schema, table, seq, view, normVars>>

\* the abandoned connection of a failed save is collected: its transaction
\* is rolled back and its lock released
Collect ==
    /\ lock = "leaked"
    /\ lock' = "free"
    /\ leaked' = NoTxn
    /\ UNCHANGED <<schema, table, seq, sessVars, normVars>>

\* lines 238-247: the right column reads the table back
Display(s) ==
    /\ pc[s] = "display"
    /\ Len(schema) > 0
    /\ view' = [view EXCEPT ![s] = load_weather_from_db(table)]
    /\ pc' = [pc EXCEPT ![s] = "shown"]
    /\ UNCHANGED <<storeVars, resp, rows, idx, txn, prior, report, normVars>>

\* the script run ends; the page stays until the next rerun replaces it
Finish(s) ==
    /\ pc[s] = "shown"
    /\ pc' = [pc EXCEPT ![s] = "idle"]
    /\ view' = [view EXCEPT ![s] = <<>>]
    /\ report' = [report EXCEPT ![s] = NoReport]
    /\ UNCHANGED <<storeVars, resp, rows, idx, txn, prior, normVars>>

StoreInit ==
    /\ schema = <<>> /\ table = {} /\ seq = 0
    /\ lock = "free" /\ leaked = NoTxn
SessInit ==
    /\ pc = [s \in Sessions |-> "idle"]
    /\ resp = [s \in Sessions |-> NoResponse]
    /\ rows = [s \in Sessions |-> <<>>]
    /\ idx = [s \in Sessions |-> 0]
    /\ txn = [s \in Sessions |-> NoTxn]
    /\ prior = [s \in Sessions |-> {}]
    /\ report = [s \in Sessions |-> NoReport]
    /\ view = [s \in Sessions |-> <<>>]

Init == StoreInit /\ SessInit /\ call = "none" /\ arg = NoArg /\ ret = Return(None)

Next ==
    \/ \E s \in Sessions : Run(s)
    \/ \E s \in Sessions : Fetch(s)
    \/ \E s \in Sessions : Parse(s)
    \/ \E s \in Sessions : InitDb(s)
    \/ \E s \in Sessions : SaveDelete(s)
    \/ \E s \in Sessions : SaveBusy(s)
    \/ \E s \in Sessions : SaveInsert(s)
    \/ \E s \in Sessions : SaveCommit(s)
    \/ \E s \in Sessions : SaveFail(s)
    \/ \E s \in Sessions : Display(s)
    \/ \E s \in Sessions : Finish(s)
    \/ Collect

Spec == Init /\ [][Next]_vars

NormInit ==
    /\ StoreInit /\ SessInit
    /\ call = "none" /\ arg \in NormInputs /\ ret = Return(None)

NormNext == CallLocate \/ CallFirst \/ CallParse

SpecNorm == NormInit /\ [][NormNext]_vars

(***************************************************************************)
(* Properties of the normaliser, checked under SpecNorm.                   *)
(***************************************************************************)
UnknownShape(d) == "cwaopendata" \notin DOMAIN d /\ "records" \notin DOMAIN d

\* C6: for a payload that holds neither the cwaopendata nor the records
\* key, _get_root_locations returns the empty list and raises nothing.
C6_UnknownShapeIsEmpty ==
    (call = "locate" /\ UnknownShape(arg.v)) => ret = Return(List(<<>>))

C6_Witness ==
    /\ call = "locate" /\ UnknownShape(arg.v)
    /\ "location" \in DOMAIN arg.v /\ arg.v.location.e # <<>>
    /\ ret = Return(List(<<>>))

\* the two layouts of a time entry, each read on its own
ParameterLayout(t0) ==
    IF IsDict(Get(t0, "parameter", None))
    THEN Get(t0["parameter"], "parameterName", None)
    ELSE None
ElementValueLayout(t0) ==
    LET ev == Get(t0, "elementValue", None)
    IN  IF IsList(ev) /\ ev.e # <<>> THEN Get(ev.e[1], "value", None)
        ELSE IF IsDict(ev) THEN Get(ev, "value", None)
        ELSE None

\* C10: when the parameter layout of the first time entry yields no value
\* and the element-value layout holds one, _get_first_time_value returns
\* the element-value layout's value.
C10_FirstNonNullWins ==
    (call = "first" /\ ~Falsy(arg.v)) =>
        ((ParameterLayout(arg.v.e[1]) = None /\ ElementValueLayout(arg.v.e[1]) # None)
            => ret = Return(ElementValueLayout(arg.v.e[1])))

\* the output fields and the element names that feed each
Fields == {"min_temp", "max_temp", "description"}
NamesOf(f) == IF f = "min_temp" THEN {MinT}
              ELSE IF f = "max_temp" THEN {MaxT}
              ELSE {Wx, WeatherDescription}

ElementsOf(loc) == Get(loc, "weatherElement", List(<<>>)).e
FirstValueOf(elem) == _get_first_time_value(Get(elem, "time", List(<<>>)))

\* the indices of the entity's elements that feed field f and hold a value
Feeding(loc, f) ==
    {j \in 1..Len(ElementsOf(loc)) :
        /\ Get(ElementsOf(loc)[j], "elementName", None) \in NamesOf(f)
        /\ FirstValueOf(ElementsOf(loc)[j]) # None}

\* the raw value extracted for field f: that of the last such element
Extracted(loc, f) ==
    IF Feeding(loc, f) = {} THEN None
    ELSE FirstValueOf(ElementsOf(loc)[CHOOSE j \in Feeding(loc, f) :
                                         \A k \in Feeding(loc, f) : k <= j])

\* an element feeding field f is present with a non-empty time series
HasSeries(loc, f) ==
    \E j \in 1..Len(ElementsOf(loc)) :
        /\ Get(ElementsOf(loc)[j], "elementName", None) \in NamesOf(f)
        /\ ~Falsy(Get(ElementsOf(loc)[j], "time", List(<<>>)))

Unparseable(v) == v # None /\ float(v).exc # "none"

\* C5: a MinT or MaxT raw value that does not parse as a float raises
\* nothing, the entity's record is emitted, and the field holds the raw
\* value unchanged.
C5_UnparseableKept ==
    call = "parse" =>
        \A i \in 1..Len(_get_root_locations(arg.v).e) :
            \A f \in {"min_temp", "max_temp"} :
                Unparseable(Extracted(_get_root_locations(arg.v).e[i], f)) =>
                    /\ ret.exc = "none"
                    /\ Len(ret.val) = Len(_get_root_locations(arg.v).e)
                    /\ ret.val[i][f] = Extracted(_get_root_locations(arg.v).e[i], f)

\* the value field f takes from the raw value v
FieldValue(f, v) ==
    IF v = None \/ f = "description" THEN v
    ELSE IF float(v).exc = "none" THEN float(v).val
    ELSE v

\* C7: for an entity in which the element of a field is absent or has an
\* empty time series, parse_weather_json raises nothing, emits the record
\* with that field null, and fills the other fields from the elements
\* that are present.
C7_MissingElementNull ==
    call = "parse" =>
        \A i \in 1..Len(_get_root_locations(arg.v).e) :
            \A f \in Fields :
                ~HasSeries(_get_root_locations(arg.v).e[i], f) =>
                    /\ ret.exc = "none"
                    /\ Len(ret.val) = Len(_get_root_locations(arg.v).e)
                    /\ ret.val[i][f] = None
                    /\ \A g \in Fields \ {f} :
                          ret.val[i][g] =
                              FieldValue(g, Extracted(_get_root_locations(arg.v).e[i], g))

(***************************************************************************)
(* Properties of the dashboard and its store, checked under Spec.          *)
(***************************************************************************)
Columns == {"location", "min_temp", "max_temp", "description"}

\* a stored row holds the values of a record; only the id is added
SameValues(stored, record) == \A c \in Columns : stored[c] = Get(record, c, None)

\* the read-back `out` is the record list `records`, in the same order
SameRecords(out, records) ==
    /\ Len(out) = Len(records)
    /\ \A i \in 1..Len(out) : SameValues(out[i], records[i])

\* session s takes the step that ends its save_weather_to_db with an exception
SaveFails(s) == pc[s] = "insert" /\ pc'[s] = "display" /\ report'[s].kind = "error"

\* session s takes the step that completes its save_weather_to_db
SaveCompletes(s) == pc[s] = "insert" /\ pc'[s] = "display" /\ report'[s].kind = "success"

\* C1: a failure inside save_weather_to_db, after the DELETE or after some
\* of the INSERTs, is never observable: while the save runs, when it
\* fails, and when its abandoned connection is collected, a read of the
\* table returns the snapshot that preceded the save.
C1_FailedSaveInvisible ==
    /\ [](\A s \in Sessions :
            pc[s] = "insert" =>
                load_weather_from_db(table) = load_weather_from_db(prior[s]))
    /\ [][\A s \in Sessions :
            SaveFails(s) =>
                load_weather_from_db(table') = load_weather_from_db(prior[s])]_vars
    /\ [][(lock = "leaked" /\ lock' = "free") => (table' = table /\ seq' = seq)]_vars

\* a save failed after some but not all of its INSERTs, over a populated table
C1_Witness ==
    /\ lock = "leaked" /\ leaked.rows # {}
    /\ table # {} /\ table # leaked.rows
    /\ \E s \in Sessions : pc[s] = "display" /\ report[s] = Error("ProgrammingError")

\* C2: a completed save_weather_to_db(R) followed by load_weather_from_db()
\* returns len(R) rows equal to the records of R in the same order, and
\* no row of the prior content remains.
C2_RoundTrip ==
    [][\A s \in Sessions :
        SaveCompletes(s) =>
            /\ SameRecords(load_weather_from_db(table'), rows[s])
            /\ \A old \in table : \A new \in table' : new.id # old.id]_vars

\* a save of two records completed over a table that held rows before
C2_Witness ==
    /\ \E s \in Sessions : pc[s] = "display" /\ report[s] = Success(2)
    /\ Cardinality(table) = 2
    /\ \A r \in table : r.id > 1
    /\ \E r \in table : r.min_temp = Float(2, 0)

\* the exceptions download_weather_json raises
FetchErrors == {"ConnectionError", "Timeout", "HTTPError"}
FetchFailed(r) == r.err # "none" \/ r.status >= 400

\* C3: when the fetch fails (network failure, timeout or non-success
\* status), the refresh ends there: it writes nothing to the store and
\* reports the failure.
C3_FetchFailureWritesNothing ==
    /\ [](\A s \in Sessions :
            pc[s] \in {"parse", "init", "delete", "insert"} => ~FetchFailed(resp[s]))
    /\ [][\A s \in Sessions :
            (pc[s] = "fetch" /\ pc'[s] \notin {"fetch", "parse"}) =>
                /\ pc'[s] = "display"
                /\ report'[s].kind = "error" /\ report'[s].exc \in FetchErrors
                /\ UNCHANGED storeVars
                /\ txn'[s] = NoTxn]_vars

\* a refresh failed on a non-success status and the table kept its rows
C3_Witness ==
    /\ \E s \in Sessions : pc[s] = "display" /\ report[s] = Error("HTTPError")
    /\ table # {}

\* the record lists a refresh can write: those the bodies normalise to
CompleteSets == {parse_weather_json(b).val : b \in {d \in Bodies : parse_weather_json(d).exc = "none"}}

\* C4: concurrent refreshes are serialised: at most one session is inside
\* the writing part of save_weather_to_db, and every read returns the
\* complete record set of one refresh (or the initial empty table).
C4_RefreshesSerialised ==
    \A s \in Sessions :
        /\ pc[s] = "insert" =>
              /\ lock = s
              /\ \A u \in Sessions \ {s} : pc[u] # "insert"
        /\ pc[s] = "shown" =>
              \/ view[s] = <<>>
              \/ \E records \in CompleteSets : SameRecords(view[s], records)

\* a session read the table while the other had inserted part of its rows
C4_Witness ==
    \E s \in Sessions : \E u \in Sessions \ {s} :
        /\ pc[s] = "insert" /\ idx[s] = 2 /\ Len(rows[s]) = 2
        /\ pc[u] = "shown" /\ view[u] # <<>>

\* C8: a refresh whose payload matches no known root shape normalises to
\* zero records without an error, and its save leaves the weather table
\* in place and empty and reports success.
C8_UnknownShapeEmptiesTable ==
    /\ [](\A s \in Sessions :
            (pc[s] \in {"init", "delete", "insert"} /\ UnknownShape(resp[s].body))
                => rows[s] = <<>>)
    /\ [][\A s \in Sessions :
            (pc[s] = "parse" /\ UnknownShape(resp[s].body))
                => pc'[s] \in {"parse", "init"}]_vars
    /\ [][\A s \in Sessions :
            (SaveCompletes(s) /\ UnknownShape(resp[s].body)) =>
                /\ report'[s] = Success(0)
                /\ load_weather_from_db(table') = <<>>
                /\ \E i \in 1..Len(schema') : schema'[i] = "weather"]_vars

\* such a refresh completed over a table that held rows before
C8_Witness ==
    /\ \E s \in Sessions : pc[s] = "display" /\ report[s] = Success(0)
    /\ table = {} /\ seq > 0

WeatherTables == {i \in 1..Len(schema) : schema[i] = "weather"}

\* session s takes a step that runs init_db (line 255 or line 217)
RunsInitDb(s) == (pc[s] = "idle" /\ pc'[s] # "idle") \/ (pc[s] = "init" /\ pc'[s] # "init")

\* C9: init_db is idempotent: in any store state it raises nothing, the
\* schema holds the weather table once, and the rows are unchanged.
C9_InitDbIdempotent ==
    /\ [](Cardinality(WeatherTables) <= 1)
    /\ [][\A s \in Sessions :
            RunsInitDb(s) =>
                /\ table' = table /\ seq' = seq
                /\ WeatherTables # {} => schema' = schema
                /\ \E i \in 1..Len(schema') : schema'[i] = "weather"
                /\ report'[s].kind # "error"]_vars

\* init_db ran (line 217) over a populated table while a save was open
C9_Witness ==
    \E s \in Sessions :
        /\ pc[s] = "delete" /\ table # {} /\ Cardinality(WeatherTables) = 1
        /\ lock \notin {"free", s}

====
